---- MODULE Spec2Model ----
(***************************************************************************)
(* A model of dmwm/cmsauth: the CMS trust-header HMAC protocol (CMSAuth)   *)
(* and the CRIC identity directory.                                        *)
(*                                                                         *)
(* Go strings are sequences of byte values (ASCII codes), so that          *)
(* strings.ToLower, HasPrefix, Contains, Replace, Split, the byte-wise     *)
(* order of sort.Sort and the %x / %d verbs are computed, not assumed.     *)
(* An http.Header is a function from the stored key (a string, in the      *)
(* letter casing it was stored with) to the sequence of its values.        *)
(***************************************************************************)
EXTENDS Integers, Sequences, FiniteSets, TLC

VARIABLES afile, hkey, pc, headers, stamped, tampered, last, entries, cricOut,
          curDN, dnOut, gpc, got, Certs, Expire, now

vars == <<afile, hkey, pc, headers, stamped, tampered, last, entries, cricOut,
          curDN, dnOut, gpc, got, Certs, Expire, now>>
authVars == <<afile, hkey, pc, headers, stamped, tampered, last>>
cricVars == <<entries, cricOut>>
dnVars == <<curDN, dnOut>>
tlsVars == <<gpc, got, Certs, Expire, now>>

(***************************************************************************)
(* Bounds of the model.                                                    *)
(***************************************************************************)
\* the largest number of keys a caller stores in a header collection by hand
MaxHeaders == 4
\* the largest number of headers a request holds before SetCMSHeaders stamps it
MaxStampOver == 1
\* the largest number of entries of a CRIC document
MaxEntries == 3
\* the largest number of bytes of a DN string given to GetSortedDN
MaxDNLen == 4
\* the number of goroutines that call GetCerts on the one manager
MaxGoroutines == 2
\* the latest reading of the clock
MaxTime == 2

(***************************************************************************)
(* String literals of the source, as byte sequences.                       *)
(***************************************************************************)
S_empty == << >>
\* "cms-auth-status"
S_cms_auth_status == <<99, 109, 115, 45, 97, 117, 116, 104, 45, 115, 116, 97, 116, 117, 115>>
\* "cms-authn"
S_cms_authn == <<99, 109, 115, 45, 97, 117, 116, 104, 110>>
\* "cms-authz"
S_cms_authz == <<99, 109, 115, 45, 97, 117, 116, 104, 122>>
\* "cms-authn-hmac"
S_cms_authn_hmac == <<99, 109, 115, 45, 97, 117, 116, 104, 110, 45, 104, 109, 97, 99>>
\* "cms-authn-"
S_cms_authn_dash == <<99, 109, 115, 45, 97, 117, 116, 104, 110, 45>>
\* "cms-authz-"
S_cms_authz_dash == <<99, 109, 115, 45, 97, 117, 116, 104, 122, 45>>
\* "NONE"
S_NONE == <<78, 79, 78, 69>>
\* "ok"
S_ok == <<111, 107>>
\* "cms-authn-name"
S_cms_authn_name == <<99, 109, 115, 45, 97, 117, 116, 104, 110, 45, 110, 97, 109, 101>>
\* "cms-authn-dn"
S_cms_authn_dn == <<99, 109, 115, 45, 97, 117, 116, 104, 110, 45, 100, 110>>
\* "cms-auth-cert"
S_cms_auth_cert == <<99, 109, 115, 45, 97, 117, 116, 104, 45, 99, 101, 114, 116>>
\* "cms-authn-login"
S_cms_authn_login == <<99, 109, 115, 45, 97, 117, 116, 104, 110, 45, 108, 111, 103, 105, 110>>
\* "cms-authn-method"
S_cms_authn_method == <<99, 109, 115, 45, 97, 117, 116, 104, 110, 45, 109, 101, 116, 104, 111, 100>>
\* "X509Cert"
S_X509Cert == <<88, 53, 48, 57, 67, 101, 114, 116>>
\* "cms-cern-id"
S_cms_cern_id == <<99, 109, 115, 45, 99, 101, 114, 110, 45, 105, 100>>
\* "cms-email"
S_cms_email == <<99, 109, 115, 45, 101, 109, 97, 105, 108>>
\* "cms-auth-time"
S_cms_auth_time == <<99, 109, 115, 45, 97, 117, 116, 104, 45, 116, 105, 109, 101>>
\* "cms-auth-expire"
S_cms_auth_expire == <<99, 109, 115, 45, 97, 117, 116, 104, 45, 101, 120, 112, 105, 114, 101>>
\* "cms-session"
S_cms_session == <<99, 109, 115, 45, 115, 101, 115, 115, 105, 111, 110>>
\* "cms-request-uri"
S_cms_request_uri == <<99, 109, 115, 45, 114, 101, 113, 117, 101, 115, 116, 45, 117, 114, 105>>
\* "<nil>", what %v prints for a key the userData map does not hold
S_nil == <<60, 110, 105, 108, 62>>
\* " "
S_space == <<32>>
\* "/"
S_slash == <<47>>
\* "//"
S_slashslash == <<47, 47>>
\* "login", "id", "name", "dn": the key tokens of getCricRecordsByKey
S_login == <<108, 111, 103, 105, 110>>
S_id == <<105, 100>>
S_name == <<110, 97, 109, 101>>
S_dn == <<100, 110>>

(***************************************************************************)
(* The Go string functions the source uses.                                *)
(***************************************************************************)
ToLowerByte(c) == IF c >= 65 /\ c <= 90 THEN c + 32 ELSE c

\* strings.ToLower
ToLower(s) == [i \in 1..Len(s) |-> ToLowerByte(s[i])]

\* strings.HasPrefix
HasPrefix(s, p) == Len(s) >= Len(p) /\ SubSeq(s, 1, Len(p)) = p

\* strings.Index, 1-based; 0 when sub does not occur in s
Index(s, sub) ==
    LET hits == {i \in 1..(Len(s) - Len(sub) + 1) : SubSeq(s, i, i + Len(sub) - 1) = sub}
    IN  IF hits = {} THEN 0 ELSE CHOOSE i \in hits : \A j \in hits : i <= j

\* strings.Contains
Contains(s, sub) == Index(s, sub) # 0

\* strings.Replace(s, old, new, 1) for a non-empty old
ReplaceFirst(s, old, new) ==
    LET i == Index(s, old)
    IN  IF i = 0 THEN s
        ELSE SubSeq(s, 1, i - 1) \o new \o SubSeq(s, i + Len(old), Len(s))

\* the order of Go's < on strings: byte-wise, a proper prefix first
RECURSIVE lessFrom(_, _, _)
lessFrom(a, b, i) ==
    IF i > Len(b) THEN FALSE
    ELSE IF i > Len(a) THEN TRUE
    ELSE IF a[i] # b[i] THEN a[i] < b[i]
    ELSE lessFrom(a, b, i + 1)

Less(a, b) == lessFrom(a, b, 1)

\* the digits of n >= 0 in the given base, lower-case as %x and %d print them
RECURSIVE Digits(_, _)
Digits(n, base) ==
    LET d == n % base
        c == IF d < 10 THEN 48 + d ELSE 87 + d
    IN  IF n < base THEN <<c>> ELSE Digits(n \div base, base) \o <<c>>

\* fmt.Sprintf("%x", n) of a length
Hex(n) == Digits(n, 16)

\* fmt.Sprintf("%d", n) of an int64
Itoa(n) == IF n < 0 THEN <<45>> \o Digits(0 - n, 10) ELSE Digits(n, 10)

\* strings.Join(parts, sep)
RECURSIVE Join(_, _)
Join(parts, sep) ==
    IF Len(parts) = 0 THEN << >>
    ELSE IF Len(parts) = 1 THEN parts[1]
    ELSE parts[1] \o sep \o Join(Tail(parts), sep)

\* strings.Split(s, sep) for a one-byte sep: the pieces between the separators,
\* one empty piece for the empty string
RECURSIVE Split(_, _)
Split(s, sep) ==
    LET i == Index(s, sep)
    IN  IF i = 0 THEN <<s>>
        ELSE <<SubSeq(s, 1, i - 1)>> \o Split(SubSeq(s, i + 1, Len(s)), sep)

\* strings.Replace(s, old, new, -1) for a non-empty old: every occurrence,
\* left to right, none overlapping
RECURSIVE ReplaceAll(_, _, _)
ReplaceAll(s, old, new) ==
    LET i == Index(s, old)
    IN  IF i = 0 THEN s
        ELSE SubSeq(s, 1, i - 1) \o new \o ReplaceAll(SubSeq(s, i + Len(old), Len(s)), old, new)

\* sort.Strings(parts): the strings of a slice in ascending order
RECURSIVE insertSorted(_, _)
insertSorted(x, sorted) ==
    IF Len(sorted) = 0 THEN <<x>>
    ELSE IF Less(x, sorted[1]) THEN <<x>> \o sorted
    ELSE <<sorted[1]>> \o insertSorted(x, Tail(sorted))

RECURSIVE SortSlice(_)
SortSlice(parts) ==
    IF Len(parts) = 0 THEN << >>
    ELSE insertSorted(parts[1], SortSlice(Tail(parts)))

\* sort.Sort(StringList(keys)) of the keys ranged out of a map: the distinct
\* strings of a set in ascending order, whatever order the range gave them in
RECURSIVE SortStrings(_)
SortStrings(S) ==
    IF S = {} THEN << >>
    ELSE LET x == CHOOSE y \in S : TRUE
         IN  insertSorted(x, SortStrings(S \ {x}))

(***************************************************************************)
(* http.Header                                                             *)
(***************************************************************************)
\* make(http.Header)
EmptyHeader == [k \in {} |-> << >>]

\* header[k] = vals on the map itself: the key is stored as written
Put(h, k, vals) == [x \in DOMAIN h \cup {k} |-> IF x = k THEN vals ELSE h[x]]

\* the token bytes of a header name (letters, digits and !#$%&'*+-.^_`|~)
validHeaderFieldByte(c) ==
    \/ c >= 48 /\ c <= 57
    \/ c >= 65 /\ c <= 90
    \/ c >= 97 /\ c <= 122
    \/ c \in {33, 35, 36, 37, 38, 39, 42, 43, 45, 46, 94, 95, 96, 124, 126}

\* textproto.CanonicalMIMEHeaderKey, which Header.Set and Header.Get apply to
\* the key: the first letter and every letter after a '-' in upper case, the
\* others in lower case; a key with a byte that is no token byte is kept as is
CanonicalMIMEHeaderKey(s) ==
    IF \E i \in 1..Len(s) : ~validHeaderFieldByte(s[i]) THEN s
    ELSE [i \in 1..Len(s) |->
            LET upper == (i = 1) \/ (s[i - 1] = 45)
            IN  IF upper /\ s[i] >= 97 /\ s[i] <= 122 THEN s[i] - 32
                ELSE IF ~upper /\ s[i] >= 65 /\ s[i] <= 90 THEN s[i] + 32
                ELSE s[i]]

\* Header.Set(k, v)
HeaderSet(h, k, v) == Put(h, CanonicalMIMEHeaderKey(k), <<v>>)

\* Header.Get(k): the first value stored under the canonical form of k, or ""
HeaderGet(h, k) ==
    LET ck == CanonicalMIMEHeaderKey(k)
    IN  IF ck \in DOMAIN h /\ Len(h[ck]) > 0 THEN h[ck][1] ELSE S_empty

(***************************************************************************)
(* The hash.  hmac.New(sha1.New, key) and sha1.New() are taken to be       *)
(* collision-free: the hex digest is an injective code of the hash         *)
(* construction, the key and the message.                                  *)
(***************************************************************************)
\* hmac.New(sha1.New, key), Write(msg), fmt.Sprintf("%x", Sum(nil))
HmacSha1Hex(key, msg) == <<1, Len(key)>> \o key \o msg

\* sha1.New(), Write(msg), fmt.Sprintf("%x", Sum(nil))
Sha1Hex(msg) == <<2>> \o msg

(***************************************************************************)
(* CMSAuth: the trust file, the signer and the verifier.                   *)
(***************************************************************************)
\* the trust files of the file system: none given, a file holding a key, an
\* empty file, and a path that cannot be read
Files == {"", "/key", "/empty", "/missing"}

\* os.ReadFile(afile)
ReadFile(f) ==
    CASE f = "/key"   -> [err |-> FALSE, data |-> <<107>>]
      [] f = "/empty" -> [err |-> FALSE, data |-> << >>]
      [] OTHER        -> [err |-> TRUE, data |-> << >>]

\* whether the loop of checkAuthentication and the filter of GetHmac take the
\* header with this lower-cased name into the canonical string
Selected(key) ==
    (HasPrefix(key, S_cms_authn) \/ HasPrefix(key, S_cms_authz)) /\ key # S_cms_authn_hmac

\* fmt.Sprintf("h%xv%x", n, m)
HV(n, m) == <<104>> \o Hex(n) \o <<118>> \o Hex(m)

\* the loop of checkAuthentication over the sorted keys: acc holds prefix,
\* suffix, hmacValue and the header collection, which the loop writes into
RECURSIVE authLoop(_, _, _)
authLoop(hkeys, i, acc) ==
    IF i > Len(hkeys) THEN acc
    ELSE LET kkk == hkeys[i]
             values == acc.headers[kkk]
             key == ToLower(kkk)
             a1 == IF Selected(key)
                   THEN [acc EXCEPT
                           !.prefix = @ \o HV(Len(key), Len(values[1])),
                           !.suffix = @ \o key \o values[1],
                           !.headers = IF HasPrefix(key, S_cms_authn)
                                       THEN Put(@, ReplaceFirst(key, S_cms_authn_dash, S_empty), values)
                                       ELSE @]
                   ELSE acc
             a2 == IF key = S_cms_authn_hmac
                   THEN [a1 EXCEPT !.hmacValue = values[1]]
                   ELSE a1
         IN  authLoop(hkeys, i + 1, a2)

\* CMSAuth.checkAuthentication(headers) of a CMSAuth with fields af, hk.
\* val is an interface{} that holds the []string the map lookup gave: with the
\* key absent it holds a nil slice, and an interface holding a typed nil is not
\* nil, so the test val == nil never succeeds and a missing status header goes
\* on to the signature check.
\* The result: ok (the return value), headers (the collection after the call),
\* value (the canonical string), mode (the hash constructed), hmacFound.
checkAuthentication(af, hk, h) ==
    LET values == IF S_cms_auth_status \in DOMAIN h THEN h[S_cms_auth_status] ELSE << >>
        valIsNil == FALSE
    IN  IF valIsNil
        THEN [ok |-> FALSE, headers |-> h, value |-> S_empty, mode |-> "", hmacFound |-> S_empty]
        ELSE IF Len(values) = 1 /\ values[1] = S_NONE
        THEN [ok |-> TRUE, headers |-> h, value |-> S_empty, mode |-> "", hmacFound |-> S_empty]
        ELSE LET hkeys == SortStrings(DOMAIN h)
                 acc == authLoop(hkeys, 1,
                            [prefix |-> S_empty, suffix |-> S_empty,
                             hmacValue |-> S_empty, headers |-> h])
                 value == acc.prefix \o <<35>> \o acc.suffix
                 mode == IF af # "" THEN "hmac" ELSE "sha1"
                 hmacFound == IF mode = "hmac" THEN HmacSha1Hex(hk, value) ELSE Sha1Hex(value)
             IN  [ok |-> (hmacFound = acc.hmacValue), headers |-> acc.headers,
                  value |-> value, mode |-> mode, hmacFound |-> hmacFound]

\* GetHmac taking every header there is, the signature's too
GetHmacKeys_unfiltered(h) == DOMAIN h

\* GetHmac keeps the keys of the selected headers, in the casing they are
\* stored with
GetHmacKeys(h) == {k \in DOMAIN h : Selected(ToLower(k))}

\* the loop of GetHmac over the sorted selected keys
RECURSIVE hmacLoop(_, _, _, _)
hmacLoop(h, hkeys, i, acc) ==
    IF i > Len(hkeys) THEN acc
    ELSE LET k == hkeys[i]
             v == HeaderGet(h, k)
         IN  hmacLoop(h, hkeys, i + 1,
                 [prefix |-> acc.prefix \o HV(Len(k), Len(v)),
                  suffix |-> acc.suffix \o ToLower(k) \o v])

\* CMSAuth.GetHmac(r): val is the canonical string, hmac the digest returned
GetHmac(hk, h) ==
    LET hkeys == SortStrings(GetHmacKeys(h))
        acc == hmacLoop(h, hkeys, 1, [prefix |-> S_empty, suffix |-> S_empty])
        val == acc.prefix \o <<35>> \o acc.suffix
    IN  [val |-> val, mode |-> "hmac", hmac |-> HmacSha1Hex(hk, val)]

\* CMSAuth.checkAuthorization
checkAuthorization(h) == TRUE

\* CheckAuthnAuthz switched off by an empty key instead of an empty file name
CheckAuthnAuthz_byKey(af, hk, h) ==
    IF Len(hk) = 0 THEN [ok |-> TRUE, headers |-> h]
    ELSE LET r == checkAuthentication(af, hk, h)
         IN  IF ~r.ok THEN [ok |-> FALSE, headers |-> r.headers]
             ELSE [ok |-> checkAuthorization(r.headers), headers |-> r.headers]

\* CMSAuth.CheckAuthnAuthz(header): ok and the header collection after the call
CheckAuthnAuthz(af, hk, h) ==
    IF af = "" THEN [ok |-> TRUE, headers |-> h]
    ELSE LET r == checkAuthentication(af, hk, h)
         IN  IF ~r.ok THEN [ok |-> FALSE, headers |-> r.headers]
             ELSE [ok |-> checkAuthorization(r.headers), headers |-> r.headers]

\* the inner loop looking at the first value only
authzValues_firstOnly(vals, i, group, site) ==
    /\ Len(vals) > 0
    /\ \/ Contains(ToLower(vals[1]), ToLower(group))
       \/ Contains(ToLower(vals[1]), ToLower(site))

\* the inner loop matching the group token only, the site token left out
authzValues_groupOnly(vals, i, group, site) ==
    \E j \in i..Len(vals) : Contains(ToLower(vals[j]), ToLower(group))

\* the inner loop of CheckCMSAuthz over the values of one header
RECURSIVE authzValues(_, _, _, _)
authzValues(vals, i, group, site) ==
    IF i > Len(vals) THEN FALSE
    ELSE LET v == ToLower(vals[i])
         IN  IF Contains(v, ToLower(group)) \/ Contains(v, ToLower(site)) THEN TRUE
             ELSE authzValues(vals, i + 1, group, site)

\* the outer loop of CheckCMSAuthz over the keys still to visit (a Go map is
\* ranged over in an unspecified order; the loop returns true on the first hit
\* and false when none is left, whatever the order)
RECURSIVE authzKeys(_, _, _, _, _)
authzKeys(h, todo, role, group, site) ==
    IF todo = {} THEN FALSE
    ELSE LET key == CHOOSE k \in todo : TRUE
             hit == /\ HasPrefix(ToLower(key), S_cms_authz)
                    /\ Contains(ToLower(key), ToLower(role))
                    /\ authzValues(h[key], 1, group, site)
         IN  IF hit THEN TRUE ELSE authzKeys(h, todo \ {key}, role, group, site)

\* CMSAuth.CheckCMSAuthz(header, role, group, site)
CheckCMSAuthz(h, role, group, site) == authzKeys(h, DOMAIN h, role, group, site)

(***************************************************************************)
(* SetCMSHeaders and its inputs.                                           *)
(***************************************************************************)
\* iString(v) of a userData value: a string prints as itself, an integer with
\* %d, and a key the map does not hold (nil) with %v as "<nil>"
iString(v) ==
    CASE v.kind = "string" -> v.s
      [] v.kind = "int"    -> Itoa(v.n)
      [] OTHER             -> S_nil

StrVal(s) == [kind |-> "string", s |-> s, n |-> 0]
IntVal(n) == [kind |-> "int", s |-> S_empty, n |-> n]
NilVal == [kind |-> "nil", s |-> S_empty, n |-> 0]

\* the loop of SetCMSHeaders over rec.Roles; the role names of one record give
\* distinct header keys, so the order of the map range does not show
RECURSIVE setRoles(_, _, _)
setRoles(h, roles, todo) ==
    IF todo = {} THEN h
    ELSE LET k == CHOOSE x \in todo : TRUE
             key == S_cms_authz_dash \o k
             v == roles[k]
             val == Join(v, S_space)
         IN  setRoles(HeaderSet(h, key, val), roles, todo \ {k})

\* CMSAuth.SetCMSHeaders(r, userData, cricRecords, verbose) on the request's
\* header collection h, with r.URL.Path = path: the collection after the call
SetCMSHeaders(hk, h, userData, cricRecords, path) ==
    LET h1 == HeaderSet(h, S_cms_auth_status, S_ok)
        h2 == HeaderSet(h1, S_cms_authn_name, iString(userData.name))
        login == iString(userData.cern_upn)
        h3 == IF login \in DOMAIN cricRecords
              THEN LET rec == cricRecords[login]
                       d1 == HeaderSet(h2, S_cms_authn_dn, rec.DN)
                       d2 == HeaderSet(d1, S_cms_auth_cert, rec.DN)
                   IN  setRoles(d2, rec.Roles, DOMAIN rec.Roles)
              ELSE h2
        h4 == HeaderSet(h3, S_cms_authn_login, login)
        h5 == HeaderSet(h4, S_cms_authn_method, S_X509Cert)
        h6 == HeaderSet(h5, S_cms_cern_id, iString(userData.cern_person_id))
        h7 == HeaderSet(h6, S_cms_email, iString(userData.email))
        h8 == HeaderSet(h7, S_cms_auth_time, iString(userData.auth_time))
        h9 == HeaderSet(h8, S_cms_auth_expire, iString(userData.exp))
        h10 == HeaderSet(h9, S_cms_session, iString(userData.session_state))
        h11 == HeaderSet(h10, S_cms_request_uri, path)
    IN  HeaderSet(h11, S_cms_authn_hmac, GetHmac(hk, h11).hmac)

\* the user records an identity provider hands over: one whose login the
\* directory holds and one it does not, the e-mail missing from the second
UserDatas ==
    { [name |-> StrVal(<<110>>), cern_upn |-> StrVal(<<117>>), cern_person_id |-> IntVal(7),
       email |-> StrVal(<<101>>), auth_time |-> IntVal(10), exp |-> IntVal(26),
       session_state |-> StrVal(<<115>>)],
      [name |-> StrVal(<<109>>), cern_upn |-> StrVal(<<119>>), cern_person_id |-> IntVal(0 - 1),
       email |-> NilVal, auth_time |-> IntVal(10), exp |-> IntVal(26),
       session_state |-> StrVal(<<115>>)] }

\* a CricEntry
CricEntry(dn, dns, sortedDN, id, login, name, roles) ==
    [DN |-> dn, DNs |-> dns, SortedDN |-> sortedDN, ID |-> id, Login |-> login,
     Name |-> name, Roles |-> roles]

\* the directories SetCMSHeaders is given: an empty one, and one that holds
\* login "u" with DN "/A" and role "x" of groups "a" and "B"
CricDirs ==
    { [k \in {} |-> 0],
      [k \in {<<117>>} |->
          CricEntry(<<47, 65>>, <<<<47, 65>>>>, S_empty, 7, <<117>>, <<110>>,
                    [r \in {<<120>>} |-> <<<<97>>, <<66>>>>])] }

(***************************************************************************)
(* The header collections a caller builds by hand, as the tests do.        *)
(***************************************************************************)
\* "Cms-Auth-Status"
K_Cms_Auth_Status == <<67, 109, 115, 45, 65, 117, 116, 104, 45, 83, 116, 97, 116, 117, 115>>
\* "Cms-Authn-Cms-Authz-X"
K_Cms_Authn_Cms_Authz_X == <<67, 109, 115, 45, 65, 117, 116, 104, 110, 45, 67, 109, 115, 45, 65, 117, 116, 104, 122, 45, 88>>
\* "Cms-Authz-X"
K_Cms_Authz_X == <<67, 109, 115, 45, 65, 117, 116, 104, 122, 45, 88>>
\* "cms-authz-x"
K_cms_authz_x == <<99, 109, 115, 45, 97, 117, 116, 104, 122, 45, 120>>
\* "Cms-Authn-Hmac"
K_Cms_Authn_Hmac == <<67, 109, 115, 45, 65, 117, 116, 104, 110, 45, 72, 109, 97, 99>>

\* header[key] = values: a status header NONE under either casing, a trust
\* header with the value "a" or the values "B", "a", and a signature that is
\* no digest
HeaderChoices ==
    ({S_cms_auth_status, K_Cms_Auth_Status} \X {<<S_NONE>>})
    \cup ({K_Cms_Authn_Cms_Authz_X, K_Cms_Authz_X, K_cms_authz_x} \X {<<<<97>>>>, <<<<66>>, <<97>>>>})
    \cup ({K_Cms_Authn_Hmac} \X {<<<<97>>>>})

(***************************************************************************)
(* The CRIC identity directory.                                            *)
(***************************************************************************)
\* contains(list, value)
contains(list, value) == \E i \in 1..Len(list) : list[i] = value

\* the loop keeping every part, repeated ones too
dnParts_keepAll(parts, i, acc) == acc \o SubSeq(parts, i, Len(parts))

\* the loop of GetSortedDN that keeps the first occurrence of each part
RECURSIVE dnParts(_, _, _)
dnParts(parts, i, acc) ==
    IF i > Len(parts) THEN acc
    ELSE dnParts(parts, i + 1, IF contains(acc, parts[i]) THEN acc ELSE Append(acc, parts[i]))

\* GetSortedDN with the loop starting at the second of the sorted parts
GetSortedDN_skipFirst(dn) ==
    LET parts == SortSlice(Split(dn, S_slash))
    IN  ReplaceAll(Join(SubSeq(parts, 2, Len(parts)), S_slash), S_slashslash, S_slash)

\* GetSortedDN(dn)
GetSortedDN(dn) ==
    LET parts == SortSlice(Split(dn, S_slash))
    IN  ReplaceAll(Join(dnParts(parts, 1, << >>), S_slash), S_slashslash, S_slash)

\* make(map[string]CricEntry)
EmptyRecords == [k \in {} |-> 0]

\* the key tokens getCricRecordsByKey knows, compared in lower case
SupportedKey(key) == ToLower(key) \in {S_login, S_id, S_name, S_dn}

\* the key of rec under a supported key token
KeyOf(rec, key) ==
    CASE ToLower(key) = S_login -> rec.Login
      [] ToLower(key) = S_id    -> Itoa(rec.ID)
      [] ToLower(key) = S_name  -> rec.Name
      [] OTHER                  -> rec.DN

\* the loop body keeping the record already stored, with the DN appended
storeEntry_keepFirst(cricRecords, k, rec) ==
    IF k \in DOMAIN cricRecords
    THEN [cricRecords EXCEPT ![k] = [@ EXCEPT !.DNs = Append(@, rec.DN)]]
    ELSE Put(cricRecords, k, [rec EXCEPT !.DNs = Append(rec.DNs, rec.DN)])

\* the loop body giving every entry its own DN list, the stored one left out
storeEntry_ownList(cricRecords, k, rec) ==
    Put(cricRecords, k, [rec EXCEPT !.DNs = Append(rec.DNs, rec.DN)])

\* the body of both loops from recDNs := rec.DNs on: the entry is stored under
\* k with the DN list of the record already there, or its own, and its DN
storeEntry(cricRecords, k, rec) ==
    LET recDNs == IF k \in DOMAIN cricRecords
                  THEN Append(cricRecords[k].DNs, rec.DN)
                  ELSE Append(rec.DNs, rec.DN)
    IN  Put(cricRecords, k, [rec EXCEPT !.DNs = recDNs])

\* the loop of getCricRecordsByKey from entry i on
RECURSIVE byKeyLoop(_, _, _, _)
byKeyLoop(ents, i, key, cricRecords) ==
    IF i > Len(ents) THEN [records |-> cricRecords, err |-> FALSE]
    ELSE IF ~SupportedKey(key) THEN [records |-> cricRecords, err |-> TRUE]
    ELSE byKeyLoop(ents, i + 1, key, storeEntry(cricRecords, KeyOf(ents[i], key), ents[i]))

\* getCricRecordsByKey(entries, key, verbose): the map and whether err is non-nil
getCricRecordsByKey(ents, key) == byKeyLoop(ents, 1, key, EmptyRecords)

\* the loop of getCricRecords from entry i on
RECURSIVE sortedDNLoop(_, _, _)
sortedDNLoop(ents, i, cricRecords) ==
    IF i > Len(ents) THEN [records |-> cricRecords, err |-> FALSE]
    ELSE LET sortedDN == GetSortedDN(ents[i].DN)
             stored == storeEntry(cricRecords, sortedDN, ents[i])
         IN  sortedDNLoop(ents, i + 1,
                 [stored EXCEPT ![sortedDN] = [@ EXCEPT !.SortedDN = sortedDN]])

\* getCricRecords(entries, verbose)
getCricRecords(ents) == sortedDNLoop(ents, 1, EmptyRecords)

\* GetCricDataByKey(rurl, key, verbose), GetCricEntries having given (ents, nil)
\* when fetched and (nil, err) otherwise
GetCricDataByKey(fetched, ents, key) ==
    IF ~fetched THEN [records |-> EmptyRecords, err |-> TRUE]
    ELSE [records |-> getCricRecordsByKey(ents, key).records, err |-> FALSE]

\* GetCricData(rurl, verbose)
GetCricData(fetched, ents) ==
    IF ~fetched THEN [records |-> EmptyRecords, err |-> TRUE]
    ELSE getCricRecords(ents)

\* ParseCricByKey(fname, key, verbose): file is "ok" (the file holds ents),
\* "missing" (os.Stat fails) or "unreadable" (os.Open or io.ReadAll fails)
ParseCricByKey(file, ents, key) ==
    IF file = "missing" THEN [records |-> EmptyRecords, err |-> FALSE]
    ELSE IF file = "unreadable" THEN [records |-> EmptyRecords, err |-> TRUE]
    ELSE LET r == getCricRecordsByKey(ents, key)
         IN  IF r.err THEN [records |-> EmptyRecords, err |-> TRUE] ELSE r

\* ParseCric(fname, verbose)
ParseCric(file, ents) ==
    IF file = "missing" THEN [records |-> EmptyRecords, err |-> FALSE]
    ELSE IF file = "unreadable" THEN [records |-> EmptyRecords, err |-> TRUE]
    ELSE LET r == getCricRecords(ents)
         IN  IF r.err THEN [records |-> EmptyRecords, err |-> TRUE] ELSE r

(***************************************************************************)
(* The state machine of the header protocol.                               *)
(*   afile, hkey  the fields of the CMSAuth                                *)
(*   pc           "new" before CMSAuth.Init has run, "ready" after         *)
(*   headers      the header collection of the request at hand             *)
(*   stamped      headers is as SetCMSHeaders left it                      *)
(*   tampered     headers is a verified collection with one selected       *)
(*                header's first value changed                             *)
(*   last         what the most recent call was given and what it gave     *)
(***************************************************************************)
NoLast ==
    [op |-> "none", pre |-> EmptyHeader, ok |-> FALSE, value |-> S_empty,
     digest |-> S_empty, mode |-> "", stamped |-> FALSE, tampered |-> FALSE,
     role |-> S_empty, group |-> S_empty, site |-> S_empty]

NoOut == [op |-> "none", key |-> S_empty, src |-> "", records |-> EmptyRecords, err |-> FALSE]

\* no GetSortedDN call made yet
NoDN == [op |-> "none", arg |-> S_empty, res |-> S_empty, again |-> FALSE, from |-> S_empty]

\* the DN at hand while no DN is being normalised
DnIdle ==
    /\ curDN = S_empty
    /\ dnOut = NoDN

\* the goroutines that call tlsManager.GetCerts
Goroutines == 1..MaxGoroutines

\* var certs []tls.Certificate with nothing assigned, and a call that has not
\* got anything from TlsCerts
NilCerts == << >>
NoResult == [err |-> FALSE, certs |-> NilCerts]

\* var tlsManager TLSCertsManager: the zero value, no goroutine in GetCerts
TlsIdle ==
    /\ gpc = [g \in Goroutines |-> "idle"]
    /\ got = [g \in Goroutines |-> NoResult]
    /\ Certs = NilCerts
    /\ Expire = 0
    /\ now = 0

Init ==
    /\ afile = ""
    /\ hkey = << >>
    /\ pc = "new"
    /\ headers = EmptyHeader
    /\ stamped = FALSE
    /\ tampered = FALSE
    /\ last = NoLast
    /\ entries = << >>
    /\ cricOut = NoOut
    /\ DnIdle
    /\ TlsIdle

\* CMSAuth.Init(f), once, at start-up
CMSAuthInit(f) ==
    /\ pc = "new"
    /\ afile' = f
    /\ hkey' = IF Len(f) # 0 /\ ~ReadFile(f).err THEN ReadFile(f).data ELSE hkey
    /\ pc' = "ready"
    /\ UNCHANGED <<headers, stamped, tampered, last, cricVars, dnVars, tlsVars>>

\* header[k] = vals by the caller
MapAssign(k, vals) ==
    /\ pc = "ready"
    /\ Cardinality(DOMAIN headers \cup {k}) <= MaxHeaders
    /\ headers' = Put(headers, k, vals)
    /\ stamped' = FALSE
    /\ tampered' = FALSE
    /\ last' = NoLast
    /\ UNCHANGED <<afile, hkey, pc, cricVars, dnVars, tlsVars>>

\* hmac := a.GetHmac(r); r.Header.Set("cms-authn-hmac", hmac)
SignHeaders ==
    /\ pc = "ready"
    /\ Cardinality(DOMAIN headers \cup {K_Cms_Authn_Hmac}) <= MaxHeaders
    /\ LET g == GetHmac(hkey, headers)
       IN  /\ headers' = HeaderSet(headers, S_cms_authn_hmac, g.hmac)
           /\ last' = [NoLast EXCEPT !.op = "GetHmac", !.pre = headers, !.ok = TRUE,
                                     !.value = g.val, !.digest = g.hmac, !.mode = g.mode]
    /\ stamped' = FALSE
    /\ tampered' = FALSE
    /\ UNCHANGED <<afile, hkey, pc, cricVars, dnVars, tlsVars>>

\* a.SetCMSHeaders(r, userData, cricRecords, verbose)
CallSetCMSHeaders(userData, cricRecords) ==
    /\ pc = "ready"
    /\ Cardinality(DOMAIN headers) <= MaxStampOver
    /\ headers' = SetCMSHeaders(hkey, headers, userData, cricRecords, S_slash)
    /\ stamped' = TRUE
    /\ tampered' = FALSE
    /\ last' = NoLast
    /\ UNCHANGED <<afile, hkey, pc, cricVars, dnVars, tlsVars>>

\* the verifier accepts h because the digest it computes is the one h carries
Verified(af, hk, h) ==
    LET r == checkAuthentication(af, hk, h) IN r.ok /\ r.mode # ""

\* someone on the way changes the first value of one selected header of a
\* verified collection
Tamper ==
    /\ pc = "ready"
    /\ Verified(afile, hkey, headers)
    /\ \E c \in HeaderChoices :
          /\ c[1] \in DOMAIN headers
          /\ Selected(ToLower(c[1]))
          /\ c[2][1] # headers[c[1]][1]
          /\ headers' = Put(headers, c[1], c[2])
    /\ tampered' = TRUE
    /\ stamped' = FALSE
    /\ last' = NoLast
    /\ UNCHANGED <<afile, hkey, pc, cricVars, dnVars, tlsVars>>

\* a.checkAuthentication(headers)
CallCheckAuthentication ==
    /\ pc = "ready"
    /\ LET r == checkAuthentication(afile, hkey, headers)
       IN  /\ headers' = r.headers
           /\ last' = [NoLast EXCEPT !.op = "checkAuthentication", !.pre = headers,
                                     !.ok = r.ok, !.value = r.value, !.digest = r.hmacFound,
                                     !.mode = r.mode, !.stamped = stamped,
                                     !.tampered = tampered]
    /\ stamped' = FALSE
    /\ tampered' = FALSE
    /\ UNCHANGED <<afile, hkey, pc, cricVars, dnVars, tlsVars>>

\* a.CheckAuthnAuthz(header)
CallCheckAuthnAuthz ==
    /\ pc = "ready"
    /\ LET r == CheckAuthnAuthz(afile, hkey, headers)
       IN  /\ headers' = r.headers
           /\ last' = [NoLast EXCEPT !.op = "CheckAuthnAuthz", !.pre = headers,
                                     !.ok = r.ok, !.stamped = stamped,
                                     !.tampered = tampered]
    /\ stamped' = FALSE
    /\ tampered' = FALSE
    /\ UNCHANGED <<afile, hkey, pc, cricVars, dnVars, tlsVars>>

Next ==
    \/ \E f \in Files : CMSAuthInit(f)
    \/ \E c \in HeaderChoices : MapAssign(c[1], c[2])
    \/ SignHeaders
    \/ \E u \in UserDatas, d \in CricDirs : CallSetCMSHeaders(u, d)
    \/ Tamper
    \/ CallCheckAuthentication
    \/ CallCheckAuthnAuthz

Spec == Init /\ [][Next]_vars

(***************************************************************************)
(* CheckCMSAuthz on the header collections a caller builds, as in          *)
(* TestCheckCMSAuthz: the CMSAuth is initialised from a readable file.     *)
(***************************************************************************)
\* the role tokens "x", "Z" and "q", the group tokens "A" and "c", and the site
\* tokens "b", "t" and ""
Roles == {<<120>>, <<90>>, <<113>>}
Groups == {<<65>>, <<99>>}
Sites == {<<98>>, <<116>>, S_empty}

AuthzInit ==
    /\ afile = "/key"
    /\ hkey = ReadFile("/key").data
    /\ pc = "ready"
    /\ headers = EmptyHeader
    /\ stamped = FALSE
    /\ tampered = FALSE
    /\ last = NoLast
    /\ entries = << >>
    /\ cricOut = NoOut
    /\ DnIdle
    /\ TlsIdle

\* a.CheckCMSAuthz(header, role, group, site)
CallCheckCMSAuthz(role, group, site) ==
    /\ pc = "ready"
    /\ last' = [NoLast EXCEPT !.op = "CheckCMSAuthz", !.pre = headers,
                              !.ok = CheckCMSAuthz(headers, role, group, site),
                              !.role = role, !.group = group, !.site = site]
    /\ UNCHANGED <<afile, hkey, pc, headers, stamped, tampered, cricVars, dnVars, tlsVars>>

AuthzNext ==
    \/ \E c \in HeaderChoices : MapAssign(c[1], c[2])
    \/ \E role \in Roles, group \in Groups, site \in Sites : CallCheckCMSAuthz(role, group, site)

AuthzSpec == AuthzInit /\ [][AuthzNext]_vars

(***************************************************************************)
(* The directory operations on a CRIC document of at most MaxEntries       *)
(* entries.                                                                *)
(*   entries  the entries the document decodes to                          *)
(*   cricOut  the most recent operation, its key token, the state of its   *)
(*            source, and the map and error it returned                    *)
(***************************************************************************)
\* the entries of a document: "/A/B" and "/B/A" name the same components; the
\* first two share login "u" and differ in everything else; the third shares
\* ID, name and DN with the first and arrives with a DN list of its own
EntryChoices ==
    { CricEntry(<<47, 65, 47, 66>>, << >>, S_empty, 7, <<117>>, <<110>>,
                [r \in {<<120>>} |-> <<<<97>>>>]),
      CricEntry(<<47, 66, 47, 65>>, << >>, S_empty, 12, <<117>>, <<109>>,
                [r \in {} |-> << >>]),
      CricEntry(<<47, 65, 47, 66>>, <<<<47, 67>>>>, S_empty, 7, <<119>>, <<110>>,
                [r \in {<<120>>} |-> <<<<66>>>>]) }

\* the documents of at most MaxEntries entries
Documents == UNION {[1..n -> EntryChoices] : n \in 0..MaxEntries}

\* the key tokens a caller passes: "LOGIN", "id", "name", "Dn" and "email"
KeyTokens == {<<76, 79, 71, 73, 78>>, S_id, S_name, <<68, 110>>, <<101, 109, 97, 105, 108>>}

CricInit ==
    /\ afile = ""
    /\ hkey = << >>
    /\ pc = "new"
    /\ headers = EmptyHeader
    /\ stamped = FALSE
    /\ tampered = FALSE
    /\ last = NoLast
    /\ entries \in Documents
    /\ cricOut = NoOut
    /\ DnIdle
    /\ TlsIdle

Out(op, key, src, r) == [op |-> op, key |-> key, src |-> src, records |-> r.records, err |-> r.err]

CallGetCricRecordsByKey(key) ==
    /\ cricOut' = Out("getCricRecordsByKey", key, "ok", getCricRecordsByKey(entries, key))
    /\ UNCHANGED <<authVars, entries, dnVars, tlsVars>>

CallGetCricRecords ==
    /\ cricOut' = Out("getCricRecords", S_empty, "ok", getCricRecords(entries))
    /\ UNCHANGED <<authVars, entries, dnVars, tlsVars>>

CallGetCricDataByKey(fetched, key) ==
    /\ cricOut' = Out("GetCricDataByKey", key, IF fetched THEN "ok" ELSE "unavailable",
                      GetCricDataByKey(fetched, entries, key))
    /\ UNCHANGED <<authVars, entries, dnVars, tlsVars>>

CallGetCricData(fetched) ==
    /\ cricOut' = Out("GetCricData", S_empty, IF fetched THEN "ok" ELSE "unavailable",
                      GetCricData(fetched, entries))
    /\ UNCHANGED <<authVars, entries, dnVars, tlsVars>>

CallParseCricByKey(file, key) ==
    /\ cricOut' = Out("ParseCricByKey", key, file, ParseCricByKey(file, entries, key))
    /\ UNCHANGED <<authVars, entries, dnVars, tlsVars>>

CallParseCric(file) ==
    /\ cricOut' = Out("ParseCric", S_empty, file, ParseCric(file, entries))
    /\ UNCHANGED <<authVars, entries, dnVars, tlsVars>>

CricNext ==
    \/ \E key \in KeyTokens : CallGetCricRecordsByKey(key)
    \/ CallGetCricRecords
    \/ \E fetched \in BOOLEAN, key \in KeyTokens : CallGetCricDataByKey(fetched, key)
    \/ \E fetched \in BOOLEAN : CallGetCricData(fetched)
    \/ \E file \in {"ok", "missing", "unreadable"}, key \in KeyTokens : CallParseCricByKey(file, key)
    \/ \E file \in {"ok", "missing", "unreadable"} : CallParseCric(file)

CricSpec == CricInit /\ [][CricNext]_vars

(***************************************************************************)
(* GetSortedDN on DN strings of at most MaxDNLen bytes and on the DN of    *)
(* TestGetSortedDN.                                                        *)
(*   curDN  the DN string at hand                                          *)
(*   dnOut  the most recent call: its argument, its result, whether the    *)
(*          argument was the result of the call before, and that call's    *)
(*          argument                                                       *)
(***************************************************************************)
\* the bytes of the short DN strings: "/", "a" and "B"
DNBytes == {47, 97, 66}

\* dn of TestGetSortedDN:
\* "/DC=ch/DC=cern/OU=Organic Units/OU=Users/CN=user/CN=123/CN=First Last"
TestDN ==
    <<
       47, 68, 67, 61, 99, 104, 47, 68, 67, 61, 99, 101, 114, 110, 47, 79, 85, 61, 79, 114,
       103, 97, 110, 105, 99, 32, 85, 110, 105, 116, 115, 47, 79, 85, 61, 85, 115, 101, 114, 115,
       47, 67, 78, 61, 117, 115, 101, 114, 47, 67, 78, 61, 49, 50, 51, 47, 67, 78, 61, 70,
       105, 114, 115, 116, 32, 76, 97, 115, 116 >>

\* expect of TestGetSortedDN:
\* "/CN=123/CN=First Last/CN=user/DC=cern/DC=ch/OU=Organic Units/OU=Users"
TestExpect ==
    <<
       47, 67, 78, 61, 49, 50, 51, 47, 67, 78, 61, 70, 105, 114, 115, 116, 32, 76, 97, 115,
       116, 47, 67, 78, 61, 117, 115, 101, 114, 47, 68, 67, 61, 99, 101, 114, 110, 47, 68, 67,
       61, 99, 104, 47, 79, 85, 61, 79, 114, 103, 97, 110, 105, 99, 32, 85, 110, 105, 116, 115,
       47, 79, 85, 61, 85, 115, 101, 114, 115 >>

\* the DN strings a caller passes
DNStrings == UNION {[1..n -> DNBytes] : n \in 0..MaxDNLen} \cup {TestDN}

DnInit ==
    /\ afile = ""
    /\ hkey = << >>
    /\ pc = "new"
    /\ headers = EmptyHeader
    /\ stamped = FALSE
    /\ tampered = FALSE
    /\ last = NoLast
    /\ entries = << >>
    /\ cricOut = NoOut
    /\ curDN \in DNStrings
    /\ dnOut = NoDN
    /\ TlsIdle

\* sortedDN := GetSortedDN(dn)
CallGetSortedDN ==
    /\ dnOut' = [op |-> "GetSortedDN", arg |-> curDN, res |-> GetSortedDN(curDN),
                 again |-> (dnOut.op = "GetSortedDN" /\ dnOut.res = curDN),
                 from |-> dnOut.arg]
    /\ UNCHANGED <<authVars, cricVars, curDN, tlsVars>>

\* the caller takes the sorted DN as the DN to sort next
PassOn ==
    /\ dnOut.op = "GetSortedDN"
    /\ curDN # dnOut.res
    /\ curDN' = dnOut.res
    /\ UNCHANGED <<authVars, cricVars, dnOut, tlsVars>>

DnNext ==
    \/ CallGetSortedDN
    \/ PassOn

DnSpec == DnInit /\ [][DnNext]_vars

(***************************************************************************)
(* TLSCertsManager.GetCerts called by MaxGoroutines goroutines on the one  *)
(* tlsManager.  Times are in seconds; the clock is read at multiples of    *)
(* FallbackSeconds.  A certificate is modelled by its NotAfter time.       *)
(*   gpc     where each goroutine is in GetCerts                           *)
(*   got     what TlsCerts returned to each goroutine                      *)
(*   Certs, Expire  the fields of tlsManager                               *)
(*   now     the clock                                                     *)
(***************************************************************************)
\* time.Duration(600 * time.Second)
FallbackSeconds == 600

\* var TLSCertsRenewInterval time.Duration, as the program sets it
TLSCertsRenewInterval == 600

\* the positions of a goroutine between lock.Lock() and the deferred
\* lock.Unlock()
Section == {"locked", "refresh", "load", "write", "return"}

\* var lock = sync.Mutex{}: the mutex is a local variable of the call, so the
\* call of goroutine g locks a mutex of its own
lockOf(g) == g

\* some call holds the mutex l
held(l) == \E h \in Goroutines : lockOf(h) = l /\ gpc[h] \in Section

\* what TlsCerts returns: a certificate that expires soon or late, an error,
\* or no certificate and no error (neither proxy nor user key configured)
TlsOutcomes ==
    { [err |-> FALSE, certs |-> <<FallbackSeconds>>],
      [err |-> FALSE, certs |-> <<(MaxTime + 2) * FallbackSeconds>>],
      [err |-> TRUE, certs |-> NilCerts],
      [err |-> FALSE, certs |-> NilCerts] }

\* CertExpire(certs): NotAfter of the first certificate, the zero time for none
CertExpire(certs) == IF Len(certs) = 0 THEN 0 ELSE certs[1]

TlsInit ==
    /\ afile = ""
    /\ hkey = << >>
    /\ pc = "new"
    /\ headers = EmptyHeader
    /\ stamped = FALSE
    /\ tampered = FALSE
    /\ last = NoLast
    /\ entries = << >>
    /\ cricOut = NoOut
    /\ DnIdle
    /\ TlsIdle

\* lock.Lock(); defer lock.Unlock()
GetCertsLock(g) ==
    /\ gpc[g] = "idle"
    /\ ~held(lockOf(g))
    /\ gpc' = [gpc EXCEPT ![g] = "locked"]
    /\ UNCHANGED <<authVars, cricVars, dnVars, got, Certs, Expire, now>>

\* if t.Certs == nil || time.Since(t.Expire) > TLSCertsRenewInterval.
\* While another goroutine is about to write the two fields under a mutex of
\* its own, the reads race with the writes and the test can go either way.
GetCertsTest(g) ==
    /\ gpc[g] = "locked"
    /\ LET cond == Certs = NilCerts \/ now - Expire > TLSCertsRenewInterval
           racing == \E h \in Goroutines \ {g} : gpc[h] \in {"refresh", "write"}
       IN  \E b \in (IF racing THEN BOOLEAN ELSE {cond}) :
               gpc' = [gpc EXCEPT ![g] = IF b THEN "refresh" ELSE "return"]
    /\ UNCHANGED <<authVars, cricVars, dnVars, got, Certs, Expire, now>>

\* t.Expire = time.Now()
GetCertsSetExpire(g) ==
    /\ gpc[g] = "refresh"
    /\ Expire' = now
    /\ gpc' = [gpc EXCEPT ![g] = "load"]
    /\ UNCHANGED <<authVars, cricVars, dnVars, got, Certs, now>>

\* certs, err := TlsCerts()
GetCertsLoad(g, o) ==
    /\ gpc[g] = "load"
    /\ got' = [got EXCEPT ![g] = o]
    /\ gpc' = [gpc EXCEPT ![g] = "write"]
    /\ UNCHANGED <<authVars, cricVars, dnVars, Certs, Expire, now>>

\* the branches on err: the new certificates are stored; or the old ones are
\* kept and, if they outlive the fallback window, Expire is moved to its end;
\* or, with no old ones, log.Fatal ends the process
GetCertsWrite(g) ==
    /\ gpc[g] = "write"
    /\ IF ~got[g].err
       THEN /\ Certs' = got[g].certs
            /\ gpc' = [gpc EXCEPT ![g] = "return"]
            /\ UNCHANGED Expire
       ELSE IF Certs # NilCerts
       THEN /\ LET ts == now + FallbackSeconds
               IN  Expire' = IF CertExpire(Certs) > ts THEN ts ELSE Expire
            /\ gpc' = [gpc EXCEPT ![g] = "return"]
            /\ UNCHANGED Certs
       ELSE /\ gpc' = [h \in Goroutines |-> "exit"]
            /\ UNCHANGED <<Certs, Expire>>
    /\ UNCHANGED <<authVars, cricVars, dnVars, got, now>>

\* return t.Certs, nil, and the deferred lock.Unlock()
GetCertsReturn(g) ==
    /\ gpc[g] = "return"
    /\ got' = [got EXCEPT ![g] = [err |-> FALSE, certs |-> Certs]]
    /\ gpc' = [gpc EXCEPT ![g] = "idle"]
    /\ UNCHANGED <<authVars, cricVars, dnVars, Certs, Expire, now>>

\* time passes
Tick ==
    /\ \A g \in Goroutines : gpc[g] # "exit"
    /\ now < MaxTime * FallbackSeconds
    /\ now' = now + FallbackSeconds
    /\ UNCHANGED <<authVars, cricVars, dnVars, gpc, got, Certs, Expire>>

TlsNext ==
    \/ \E g \in Goroutines : GetCertsLock(g)
    \/ \E g \in Goroutines : GetCertsTest(g)
    \/ \E g \in Goroutines : GetCertsSetExpire(g)
    \/ \E g \in Goroutines, o \in TlsOutcomes : GetCertsLoad(g, o)
    \/ \E g \in Goroutines : GetCertsWrite(g)
    \/ \E g \in Goroutines : GetCertsReturn(g)
    \/ Tick

TlsSpec == TlsInit /\ [][TlsNext]_vars

(***************************************************************************)
(* Properties of the header protocol (Spec).                               *)
(***************************************************************************)
\* every key of h is in the form Header.Set stores it in
AllCanonical(h) == \A k \in DOMAIN h : CanonicalMIMEHeaderKey(k) = k

\* C1: with a trust file holding a non-empty key, a header collection whose
\* keys were all stored with Header.Set, stamped by SetCMSHeaders and handed
\* unchanged to checkAuthentication or CheckAuthnAuthz of the same CMSAuth, is
\* accepted.
C1_RoundTrip ==
    ( /\ last.op \in {"checkAuthentication", "CheckAuthnAuthz"}
      /\ last.stamped
      /\ AllCanonical(last.pre)
      /\ afile # ""
      /\ Len(hkey) > 0 )
    => last.ok

\* a stamped request that already carried trust headers, verified and accepted
C1_Witness ==
    /\ last.op = "CheckAuthnAuthz"
    /\ last.stamped
    /\ AllCanonical(last.pre)
    /\ afile # ""
    /\ Len(hkey) > 0
    /\ K_Cms_Authn_Cms_Authz_X \in DOMAIN last.pre
    /\ last.ok

\* C2: with a non-empty key, once the first value of one selected header of a
\* verified collection is changed to another value, checkAuthentication
\* returns false.
C2_TamperDetected ==
    ( /\ last.op = "checkAuthentication"
      /\ last.tampered
      /\ afile # ""
      /\ Len(hkey) > 0 )
    => ~last.ok

\* C5: a checkAuthentication that returns false because the digest it computes
\* differs from the one the collection carries leaves the caller's header
\* collection as it was.
C5_NoCopyOnMismatch ==
    ( /\ last.op = "checkAuthentication"
      /\ \E k \in DOMAIN last.pre : ToLower(k) = S_cms_authn_hmac
      /\ ~last.ok )
    => headers = last.pre

\* h with every key in lower case, for an h whose keys stay distinct
LowerKeys(h) ==
    [k \in {ToLower(x) : x \in DOMAIN h} |-> h[CHOOSE x \in DOMAIN h : ToLower(x) = k]]

\* the canonical string the call recorded in last computes for h
ValueOf(op, h) ==
    IF op = "GetHmac" THEN GetHmac(hkey, h).val
    ELSE checkAuthentication(afile, hkey, h).value

\* C6: a header collection without a status header gives checkAuthentication
\* and GetHmac the canonical string they give the same collection with its
\* keys in lower case.
C6_CaseIndependent ==
    ( /\ last.op \in {"checkAuthentication", "GetHmac"}
      /\ \A k \in DOMAIN last.pre : ToLower(k) # S_cms_auth_status
      /\ Cardinality({ToLower(k) : k \in DOMAIN last.pre}) = Cardinality(DOMAIN last.pre) )
    => last.value = ValueOf(last.op, LowerKeys(last.pre))

\* C7: a header collection whose one status header, in whatever casing, holds
\* the single value NONE is accepted by checkAuthentication.
C7_StatusAnyCasing ==
    ( /\ last.op = "checkAuthentication"
      /\ \E k \in DOMAIN last.pre :
            /\ ToLower(k) = S_cms_auth_status
            /\ last.pre[k] = <<S_NONE>>
            /\ \A j \in DOMAIN last.pre : ToLower(j) = S_cms_auth_status => j = k )
    => last.ok

\* C8: CheckAuthnAuthz returns true on every header collection when no trust
\* file was given, and what checkAuthentication returns on that collection
\* when one was.
C8_CheckAuthnAuthz ==
    last.op = "CheckAuthnAuthz"
    => last.ok = (IF afile = "" THEN TRUE
                  ELSE checkAuthentication(afile, hkey, last.pre).ok)

\* no trust file, a signature that is no digest, and CheckAuthnAuthz true
C8_Witness ==
    /\ last.op = "CheckAuthnAuthz"
    /\ afile = ""
    /\ K_Cms_Authn_Hmac \in DOMAIN last.pre
    /\ ~checkAuthentication(afile, hkey, last.pre).ok
    /\ last.ok

\* C9: signer and verifier hash the canonical string with a keyed HMAC when
\* the key is non-empty and with the plain hash when it is empty.
C9_ModeByKey ==
    (last.op \in {"GetHmac", "checkAuthentication"} /\ last.mode # "")
    => last.digest = (IF Len(hkey) > 0 THEN HmacSha1Hex(hkey, last.value)
                      ELSE Sha1Hex(last.value))

\* the selected headers of h as (lower-cased name, first value) pairs, in the
\* order of the sorted keys
Pairs(h) ==
    LET ks == SortStrings({k \in DOMAIN h : Selected(ToLower(k))})
    IN  [i \in 1..Len(ks) |-> <<ToLower(ks[i]), h[ks[i]][1]>>]

\* C16: a header collection that differs from the one just signed or verified
\* in its sequence of selected (lower-cased name, first value) pairs gets a
\* different canonical string from the same function.
C16_CollisionFree ==
    (last.op \in {"GetHmac", "checkAuthentication"} /\ last.mode # "")
    => \A c \in HeaderChoices :
          LET h2 == Put(last.pre, c[1], c[2])
          IN  Pairs(h2) # Pairs(last.pre) => ValueOf(last.op, h2) # last.value

\* C17: a checkAuthentication or CheckAuthnAuthz call that follows a call of
\* the same function on the same header collection, with nothing done to the
\* collection in between, returns what the first call returned.
C17_Repeatable ==
    [][ ( /\ last.op \in {"checkAuthentication", "CheckAuthnAuthz"}
          /\ last'.op = last.op )
        => last'.ok = last.ok ]_vars

(***************************************************************************)
(* Properties of CheckCMSAuthz (AuthzSpec).                                *)
(***************************************************************************)
\* the value v holds the group or the site token, letter case aside
TokenIn(v, group, site) ==
    Contains(ToLower(v), ToLower(group)) \/ Contains(ToLower(v), ToLower(site))

\* C10: CheckCMSAuthz returns true exactly when some header whose lower-cased
\* name starts with cms-authz and holds the lower-cased role has, at any
\* position, a value that holds the group or the site token in lower case.
C10_CheckCMSAuthz ==
    last.op = "CheckCMSAuthz"
    => last.ok = (\E k \in DOMAIN last.pre :
                     /\ HasPrefix(ToLower(k), S_cms_authz)
                     /\ Contains(ToLower(k), ToLower(last.role))
                     /\ \E i \in 1..Len(last.pre[k]) :
                           TokenIn(last.pre[k][i], last.group, last.site))

\* CheckCMSAuthz true although no header's first value holds a token
C10_Witness ==
    /\ last.op = "CheckCMSAuthz"
    /\ last.ok
    /\ \A k \in DOMAIN last.pre : ~TokenIn(last.pre[k][1], last.group, last.site)

\* C11: with the empty string as site, CheckCMSAuthz returns true on every
\* header collection that holds, with at least one value, a header whose
\* lower-cased name starts with cms-authz and holds the lower-cased role,
\* whatever the group token is.
C11_EmptySite ==
    ( /\ last.op = "CheckCMSAuthz"
      /\ last.site = S_empty
      /\ \E k \in DOMAIN last.pre :
            /\ HasPrefix(ToLower(k), S_cms_authz)
            /\ Contains(ToLower(k), ToLower(last.role))
            /\ Len(last.pre[k]) > 0 )
    => last.ok

\* CheckCMSAuthz true with the empty site and a group token no value holds
C11_Witness ==
    /\ last.op = "CheckCMSAuthz"
    /\ last.site = S_empty
    /\ last.ok
    /\ \A k \in DOMAIN last.pre : \A i \in 1..Len(last.pre[k]) :
          ~Contains(ToLower(last.pre[k][i]), ToLower(last.group))

(***************************************************************************)
(* Properties of the directory (CricSpec).                                 *)
(***************************************************************************)
\* the key the recorded operation files the entry e under
ResolvedKey(e) ==
    IF cricOut.op \in {"getCricRecords", "GetCricData", "ParseCric"}
    THEN GetSortedDN(e.DN)
    ELSE KeyOf(e, cricOut.key)

\* the positions of the entries filed under k, and the n-th of them
Positions(k) == {i \in 1..Len(entries) : ResolvedKey(entries[i]) = k}
Nth(k, n) == CHOOSE i \in Positions(k) : Cardinality({j \in Positions(k) : j <= i}) = n
FirstOf(k) == Nth(k, 1)
LastOf(k) == Nth(k, Cardinality(Positions(k)))

\* the record r has the ID, login, name, primary DN and roles of the entry e
SameFields(r, e) ==
    /\ r.ID = e.ID
    /\ r.Login = e.Login
    /\ r.Name = e.Name
    /\ r.DN = e.DN
    /\ r.Roles = e.Roles

C12_DNAccumulation ==
    ( /\ cricOut.op # "none"
      /\ cricOut.src = "ok"
      /\ ~cricOut.err
      /\ cricOut.op \in {"getCricRecordsByKey", "GetCricDataByKey", "ParseCricByKey"}
            => SupportedKey(cricOut.key)
      /\ \A i \in 1..Len(entries) : entries[i].DNs = << >> )
    => /\ DOMAIN cricOut.records = {ResolvedKey(entries[i]) : i \in 1..Len(entries)}
       /\ \A k \in DOMAIN cricOut.records :
             cricOut.records[k].DNs =
                [n \in 1..Cardinality(Positions(k)) |-> entries[Nth(k, n)].DN]

\* one entry loaded twice and filed by login: one record, two DNs
C12_Witness ==
    /\ cricOut.op = "getCricRecordsByKey"
    /\ ToLower(cricOut.key) = S_login
    /\ Len(entries) = 2
    /\ entries[1] = entries[2]
    /\ entries[1].DNs = << >>
    /\ Cardinality(DOMAIN cricOut.records) = 1
    /\ \A k \in DOMAIN cricOut.records : Len(cricOut.records[k].DNs) = 2

\* C4: a keyed directory operation whose source was read, that has at least one
\* entry to file and whose key token is none of login, id, name, dn returns an
\* error.
C4_UnsupportedKeySurfaced ==
    ( /\ cricOut.op \in {"getCricRecordsByKey", "GetCricDataByKey", "ParseCricByKey"}
      /\ cricOut.src = "ok"
      /\ Len(entries) > 0
      /\ ~SupportedKey(cricOut.key) )
    => cricOut.err

(***************************************************************************)
(* Properties of GetSortedDN (DnSpec).                                     *)
(***************************************************************************)
\* C13: GetSortedDN of a string that GetSortedDN returned is that string.
C13_Idempotent ==
    (dnOut.op = "GetSortedDN" /\ dnOut.again) => dnOut.res = dnOut.arg

\* a DN that sorting changed, sorted a second time
C13_Witness ==
    /\ dnOut.op = "GetSortedDN"
    /\ dnOut.again
    /\ dnOut.from # dnOut.arg
    /\ Len(dnOut.arg) > 0
    /\ dnOut.res = dnOut.arg

\* the slash-separated components of the string d, as a set
Components(d) == {Split(d, S_slash)[i] : i \in 1..Len(Split(d, S_slash))}

\* the sequence s runs through the set S once, in ascending order
AscendingOf(s, S) ==
    /\ {s[i] : i \in 1..Len(s)} = S
    /\ \A i \in 1..(Len(s) - 1) : Less(s[i], s[i + 1])

\* C14: GetSortedDN(d) is the distinct slash-separated components of d in
\* ascending byte order, joined with slashes, so that it depends on the set of
\* components only.
C14_SortedDistinct ==
    dnOut.op = "GetSortedDN"
    => LET s == SortStrings(Components(dnOut.arg))
       IN  /\ AscendingOf(s, Components(dnOut.arg))
           /\ dnOut.res = Join(s, S_slash)

\* the DN of TestGetSortedDN gives the string the test expects
C14_Witness ==
    /\ dnOut.op = "GetSortedDN"
    /\ dnOut.arg = TestDN
    /\ dnOut.res = TestExpect

(***************************************************************************)
(* Properties of TLSCertsManager.GetCerts (TlsSpec).                       *)
(***************************************************************************)
\* C15: at any moment at most one goroutine is between lock.Lock() and
\* lock.Unlock() of GetCerts on the one manager.
C15_AtMostOneInSection ==
    Cardinality({g \in Goroutines : gpc[g] \in Section}) <= 1

====
